---- MODULE Spec2Model ----
(***************************************************************************)
(* A model of the Steam cost calculator: calc_cost.py (segmenter,          *)
(* extractor, classifier, per-block cost calculation, aggregation, balance *)
(* detection) and format_cost.py (the formatter).                          *)
(*                                                                         *)
(* Text is modelled character by character: a string is a sequence of      *)
(* one-character atoms.  ASCII characters stand for themselves; a CJK      *)
(* character is the atom "zh:<pinyin>"; the half-width yen sign U+00A5 is   *)
(* the atom "yen" and the full-width yen sign U+FFE5 is the atom "fwyen".  *)
(* A Decimal is a record [c |-> coefficient, e |-> decimals], the value    *)
(* c * 10^(-e), as Python's decimal keeps it.                              *)
(***************************************************************************)
EXTENDS Integers, Sequences, FiniteSets, TLC

VARIABLES
    lines,                 \* the document, after splitlines()
    pc,                    \* position of the running script
    idx,                   \* loop index into lines (split_blocks / format_cost_file)
    blocks, current,       \* split_blocks locals
    bi,                    \* index of the block being folded in main
    external, market_income, external_step1, external_step2, best,
                           \* calc_external_for_block locals
    total_external, total_market_income,
    cost_from_market, direct_external, total_cost, current_balance,
                           \* main locals
    out_lines, first_content_written,
                           \* format_cost_file locals
    output,                \* the text format_cost_file wrote to its output file
    pass, first_output,    \* which run of the formatter this is, and the first run's output
    text, result           \* extract_amounts: argument and return value

calcVars == <<blocks, current, bi, external, market_income, external_step1,
              external_step2, best, total_external, total_market_income,
              cost_from_market, direct_external, total_cost, current_balance>>
fmtVars == <<out_lines, first_content_written, output, pass, first_output>>
exVars == <<text, result>>
vars == <<lines, pc, idx, calcVars, fmtVars, exVars>>

----------------------------------------------------------------------------
(* Characters *)

yen == "yen"
fwyen == "fwyen"
Glyphs == {yen, fwyen}
Digits == {"0", "1", "2", "3", "4", "5", "6", "7", "8", "9"}
\* str.strip() and the regex class \s, on the characters of the model
Whitespace == {" ", "\t"}
\* the regex class [\d,.]
NumChars == Digits \cup {",", "."}

DigitVal(ch) ==
    CASE ch = "0" -> 0 [] ch = "1" -> 1 [] ch = "2" -> 2 [] ch = "3" -> 3
      [] ch = "4" -> 4 [] ch = "5" -> 5 [] ch = "6" -> 6 [] ch = "7" -> 7
      [] ch = "8" -> 8 [] ch = "9" -> 9

----------------------------------------------------------------------------
(* Strings *)

\* the first position >= i of s whose character is not in class (Len(s)+1 if none)
RECURSIVE RunEnd(_, _, _)
RunEnd(s, i, class) ==
    IF i <= Len(s) /\ s[i] \in class THEN RunEnd(s, i + 1, class) ELSE i

\* the last position <= i of s whose character is not in class (0 if none)
RECURSIVE RunStart(_, _, _)
RunStart(s, i, class) ==
    IF i >= 1 /\ s[i] \in class THEN RunStart(s, i - 1, class) ELSE i

\* str.strip()
Strip(s) == SubSeq(s, RunEnd(s, 1, Whitespace), RunStart(s, Len(s), Whitespace))

\* str.rstrip()
RStrip(s) == SubSeq(s, 1, RunStart(s, Len(s), Whitespace))

\* sub in s
Contains(s, sub) ==
    \E i \in 1..(Len(s) - Len(sub) + 1) : SubSeq(s, i, i + Len(sub) - 1) = sub

\* any(k in s for k in subs)
ContainsAny(s, subs) == \E k \in subs : Contains(s, k)

\* the concatenation of a sequence of sequences
RECURSIVE Flatten(_)
Flatten(ss) == IF ss = <<>> THEN <<>> ELSE Head(ss) \o Flatten(Tail(ss))

\* an optional value (Decimal | None)
None == <<>>
Some(v) == <<v>>

----------------------------------------------------------------------------
(* Decimal *)

RECURSIVE Pow10(_)
Pow10(n) == IF n = 0 THEN 1 ELSE 10 * Pow10(n - 1)

Max(a, b) == IF a >= b THEN a ELSE b

DecZero == [c |-> 0, e |-> 0]

\* getcontext().prec: the significant digits an arithmetic result keeps.  The
\* operations below are exact; PrecisionRespected states that no result of a
\* run needs more digits than prec, so that no rounding to prec takes place.
prec == 12

RECURSIVE NumDigits(_)
NumDigits(n) == IF n < 10 THEN 1 ELSE 1 + NumDigits(n \div 10)

\* the coefficient of a at e decimals (e >= a.e)
Scaled(a, e) == a.c * Pow10(e - a.e)

DecEq(a, b) == Scaled(a, Max(a.e, b.e)) = Scaled(b, Max(a.e, b.e))
DecGt(a, b) == Scaled(a, Max(a.e, b.e)) > Scaled(b, Max(a.e, b.e))
DecAdd(a, b) ==
    [c |-> Scaled(a, Max(a.e, b.e)) + Scaled(b, Max(a.e, b.e)), e |-> Max(a.e, b.e)]
DecMul(a, b) == [c |-> a.c * b.c, e |-> a.e + b.e]

\* sum(amts), which starts from the int 0
RECURSIVE DecSum(_)
DecSum(amts) ==
    IF amts = <<>> THEN DecZero
    ELSE DecAdd(DecSum(SubSeq(amts, 1, Len(amts) - 1)), amts[Len(amts)])

\* x.quantize(Decimal("0.01")) under the default rounding, ROUND_HALF_EVEN
Quantize2(a) ==
    IF a.e <= 2 THEN [c |-> Scaled(a, 2), e |-> 2]
    ELSE LET d == Pow10(a.e - 2)
             q == a.c \div d
             r == a.c % d
         IN  [c |-> IF 2 * r > d \/ (2 * r = d /\ q % 2 = 1) THEN q + 1 ELSE q,
              e |-> 2]

\* Decimal(num_str) of a string of [\d.] characters: [ok, value]; it raises
\* (ok = FALSE) unless the string has a digit and at most one point
ParseDecimal(s) ==
    LET digits == SelectSeq(s, LAMBDA ch : ch \in Digits)
        points == SelectSeq(s, LAMBDA ch : ch = ".")
        RECURSIVE Value(_)
        Value(ds) == IF ds = <<>> THEN 0
                     ELSE 10 * Value(SubSeq(ds, 1, Len(ds) - 1)) + DigitVal(ds[Len(ds)])
        point == CHOOSE i \in 1..Len(s) : s[i] = "."
    IN  IF Len(digits) >= 1 /\ Len(points) <= 1 /\ Len(digits) + Len(points) = Len(s)
        THEN [ok |-> TRUE,
              value |-> [c |-> Value(digits),
                         e |-> IF points = <<>> THEN 0 ELSE Len(s) - point]]
        ELSE [ok |-> FALSE, value |-> DecZero]

----------------------------------------------------------------------------
(* Amount Extractor *)

\* one attempt of the regex  signs? \s* [glyph] \s* ([\d,.]+)  at position i,
\* where signs is {"+", "-"} ([+-]?, optional) or {"+"} (\+, required):
\* [ok, from, to): the group's span
TokenMatchAt(s, i, signs, signRequired) ==
    LET signed == i <= Len(s) /\ s[i] \in signs
        j0 == IF signed THEN i + 1 ELSE i
        j1 == RunEnd(s, j0, Whitespace)
        j2 == RunEnd(s, j1 + 1, Whitespace)
        j3 == RunEnd(s, j2, NumChars)
    IN  [ok |-> /\ signed \/ ~signRequired
                /\ j1 <= Len(s) /\ s[j1] \in Glyphs
                /\ j3 > j2,
         from |-> j2, to |-> j3]

\* re.finditer: the groups of the non-overlapping matches, left to right
RECURSIVE FindTokens(_, _, _, _)
FindTokens(s, i, signs, signRequired) ==
    IF i > Len(s) THEN <<>>
    ELSE LET m == TokenMatchAt(s, i, signs, signRequired)
         IN  IF m.ok
             THEN <<SubSeq(s, m.from, m.to - 1)>> \o FindTokens(s, m.to, signs, signRequired)
             ELSE FindTokens(s, i + 1, signs, signRequired)

\* the loop body shared by extract_amounts and the market-income scan:
\* strip the commas, parse, skip what does not parse
RECURSIVE ParseTokens(_)
ParseTokens(groups) ==
    IF groups = <<>> THEN <<>>
    ELSE LET num_str == SelectSeq(Head(groups), LAMBDA ch : ch # ",")
             d == ParseDecimal(num_str)
         IN  (IF d.ok THEN <<d.value>> ELSE <<>>) \o ParseTokens(Tail(groups))

extract_amounts(s) == ParseTokens(FindTokens(s, 1, {"+", "-"}, FALSE))

----------------------------------------------------------------------------
(* Literal phrases of calc_cost.py *)

\* "Steam 社区市场"
MarketMarker == <<"S", "t", "e", "a", "m", " ", "zh:she", "zh:qu", "zh:shi", "zh:chang">>
\* "资金"
FundsMarker == <<"zh:zi", "zh:jin">>
\* "钱包", "余额", "变更"
Wallet == <<"zh:qian", "zh:bao1">>
BalanceWords == {Wallet, <<"zh:yu", "zh:e">>, <<"zh:bian", "zh:geng">>}
\* "支付宝", "微信支付"
Alipay == <<"zh:zhi", "zh:fu", "zh:bao3">>
WeChatPay == <<"zh:wei", "zh:xin", "zh:zhi", "zh:fu">>
Visa == <<"V", "i", "s", "a">>

EXTERNAL_METHOD_KEYWORDS ==
    { Alipay,
      WeChatPay,
      <<"zh:wei", "zh:xin">>,
      <<"zh:yin", "zh:hang", "zh:ka">>,
      <<"zh:yin", "zh:lian">>,
      <<"C", "h", "i", "n", "a", " ", "U", "n", "i", "o", "n", "P", "a", "y">>,
      Visa,
      <<"M", "a", "s", "t", "e", "r", "C", "a", "r", "d">>,
      <<"A", "m", "e", "r", "i", "c", "a", "n", " ", "E", "x", "p", "r", "e", "s", "s">> }

\* "+¥", "+￥", "-¥", "-￥"
PlusGlyph == {<<"+", yen>>, <<"+", fwyen>>}
SignedGlyph == PlusGlyph \cup {<<"-", yen>>, <<"-", fwyen>>}

----------------------------------------------------------------------------
(* Record Segmenter *)

\* from position i of s: \s* \d{1,2} \s* marker; the position after the
\* marker, or 0 when it does not match
DateField(s, i, marker) ==
    LET j == RunEnd(s, i, Whitespace)
        k == RunEnd(s, j, Digits)
        m == RunEnd(s, k, Whitespace)
    IN  IF k - j \in {1, 2} /\ m <= Len(s) /\ s[m] = marker THEN m + 1 ELSE 0

\* DATE_PATTERN.match(s): ^\d{4}\s*年\s*\d{1,2}\s*月\s*\d{1,2}\s*日
DATE_PATTERN(s) ==
    LET y == RunEnd(s, 5, Whitespace)
        mo == DateField(s, y + 1, "zh:yue")
        d == IF mo = 0 THEN 0 ELSE DateField(s, mo, "zh:ri")
    IN  /\ Len(s) >= 5
        /\ \A i \in 1..4 : s[i] \in Digits
        /\ y <= Len(s) /\ s[y] = "zh:nian"
        /\ d # 0

is_date_line(s) == DATE_PATTERN(Strip(s))

\* split_blocks_line with the branch for leading content left out
split_blocks_line_NoLeading(bs, cur, line) ==
    IF is_date_line(line)
    THEN [blocks |-> IF cur # <<>> THEN Append(bs, cur) ELSE bs, current |-> <<line>>]
    ELSE [blocks |-> bs, current |-> IF cur # <<>> THEN Append(cur, line) ELSE cur]

\* the body of split_blocks' loop, for one line: the new blocks and current
split_blocks_line(bs, cur, line) ==
    IF is_date_line(line)
    THEN [blocks |-> IF cur # <<>> THEN Append(bs, cur) ELSE bs, current |-> <<line>>]
    ELSE [blocks |-> bs, current |-> IF cur # <<>> THEN Append(cur, line) ELSE <<line>>]

\* what split_blocks does after its loop
split_blocks_end(bs, cur) == IF cur # <<>> THEN Append(bs, cur) ELSE bs

----------------------------------------------------------------------------
(* Record Classifier *)

is_market_block(block) ==
    LET has_market == \E k \in 1..Len(block) : Contains(block[k], MarketMarker)
        has_funds == \E k \in 1..Len(block) : Contains(block[k], FundsMarker)
        has_plus == \E k \in 1..Len(block) : ContainsAny(block[k], PlusGlyph)
    IN  has_market /\ has_funds /\ has_plus

has_external_method(block) ==
    \E k \in 1..Len(block) : ContainsAny(block[k], EXTERNAL_METHOD_KEYWORDS)

----------------------------------------------------------------------------
(* Cost Aggregator: calc_external_for_block *)

\* the market-income scan of one line: the "+" tokens that parse
plus_amounts(line) == ParseTokens(FindTokens(line, 1, {"+"}, TRUE))

\* market_income after the scan of the block's lines
RECURSIVE market_income_of(_)
market_income_of(block) ==
    IF block = <<>> THEN DecZero
    ELSE DecAdd(market_income_of(SubSeq(block, 1, Len(block) - 1)),
                DecSum(plus_amounts(block[Len(block)])))

\* the test of a line in step 1
step1_line(line) ==
    ContainsAny(line, EXTERNAL_METHOD_KEYWORDS) /\ Contains(line, <<yen>>)

\* the test of a line in step 2
step2_line(line) ==
    /\ Contains(line, <<yen>>)
    /\ ~ContainsAny(line, BalanceWords)
    /\ ~ContainsAny(line, SignedGlyph)

\* the test of a line in step 3
step3_line(line) == ContainsAny(line, SignedGlyph)

\* the accumulation loop of steps 1 and 2, over the lines that pass the test
RECURSIVE step_sum(_)
step_sum(ls) ==
    IF ls = <<>> THEN DecZero
    ELSE LET rest == step_sum(SubSeq(ls, 1, Len(ls) - 1))
             amts == extract_amounts(ls[Len(ls)])
         IN  IF amts # <<>> THEN DecAdd(rest, DecSum(amts)) ELSE rest

step1_sum(block) == step_sum(SelectSeq(block, step1_line))
step2_sum(block) == step_sum(SelectSeq(block, step2_line))

\* the loop of step 3: best, or None
RECURSIVE step3_best(_)
step3_best(block) ==
    IF block = <<>> THEN None
    ELSE LET line == block[Len(block)]
             prev == step3_best(SubSeq(block, 1, Len(block) - 1))
             amts == extract_amounts(line)
         IN  IF step3_line(line) /\ Len(amts) >= 1
                /\ (prev = None \/ DecGt(amts[1], prev[1]))
             THEN Some(amts[1])
             ELSE prev

----------------------------------------------------------------------------
(* Balance Detector *)

\* detect_current_wallet_balance with a later qualifying line overriding
RECURSIVE detect_current_wallet_balance_Last(_)
detect_current_wallet_balance_Last(ls) ==
    IF ls = <<>> THEN None
    ELSE LET amts == extract_amounts(ls[Len(ls)])
         IN  IF Len(amts) >= 3 THEN Some(amts[3])
             ELSE detect_current_wallet_balance_Last(SubSeq(ls, 1, Len(ls) - 1))

RECURSIVE detect_current_wallet_balance(_)
detect_current_wallet_balance(ls) ==
    IF ls = <<>> THEN None
    ELSE LET amts == extract_amounts(Head(ls))
         IN  IF Len(amts) >= 3 THEN Some(amts[3])
             ELSE detect_current_wallet_balance(Tail(ls))

----------------------------------------------------------------------------
(* Values of the variables a script does not use *)

CalcUnused ==
    /\ idx = 0 /\ blocks = <<>> /\ current = <<>> /\ bi = 0
    /\ external = DecZero /\ market_income = DecZero
    /\ external_step1 = DecZero /\ external_step2 = DecZero /\ best = None
    /\ total_external = DecZero /\ total_market_income = DecZero
    /\ cost_from_market = DecZero /\ direct_external = DecZero
    /\ total_cost = DecZero /\ current_balance = None

FmtUnused ==
    /\ out_lines = <<>> /\ first_content_written = FALSE
    /\ output = <<>> /\ pass = 0 /\ first_output = <<>>

ExUnused == text = <<>> /\ result = <<>>

----------------------------------------------------------------------------
(* calc_cost.py's main on every short document over a pool of lines *)

MaxDocLen == 3

Date == <<"2", "0", "2", "5", "zh:nian", "1", "zh:yue", "1", "zh:ri">>
Tab == <<"\t">>
Sp == <<" ">>

CalcPool ==
    { <<"x">>,                                               \* a title
      Date,                                                  \* 2025年1月1日
      <<"2", "0", "2", "5", " ", "zh:nian", " ", "1", "2", " ", "zh:yue",
        " ", "1", " ", "zh:ri">> \o Tab \o MarketMarker,     \* 2025 年 12 月 1 日<TAB>Steam 社区市场
      FundsMarker,                                           \* 资金
      FundsMarker \o Tab \o <<"+", yen, "0", ".", "0", "5">>,  \* 资金<TAB>+¥0.05
      <<"+", " ", fwyen, "0", ".", "1", "5">>,               \* + ￥0.15
      <<"+", yen, "1", ".", "5", ".">>,                      \* +¥1.5.
      Alipay \o Tab \o <<yen, "5", ".", "1", "2", "5">>,     \* 支付宝<TAB>¥5.125
      Visa \o Sp \o <<fwyen, "7">>,                          \* Visa ￥7
      WeChatPay,                                             \* 微信支付
      <<yen, "3", ".", "1", "2", "5">>,                      \* ¥3.125
      Wallet \o Sp \o <<yen, "4">>,                          \* 钱包 ¥4
      <<yen, " ", "8">> \o Tab \o <<"-", yen, " ", "2">> \o Tab \o <<yen, " ", "6">>,
                                                             \* ¥ 8<TAB>-¥ 2<TAB>¥ 6
      <<"-", fwyen, "9", " ", yen, "1", ",", "0", "0", "0", " ", yen, "0", ".", "5">> }
                                                             \* -￥9 ¥1,000 ¥0.5

Docs == UNION {[1..n -> CalcPool] : n \in 0..MaxDocLen}

Init ==
    /\ lines \in Docs
    /\ pc = "split"
    /\ CalcUnused /\ FmtUnused /\ ExUnused

\* split_blocks: one iteration of the loop
SplitLine ==
    /\ pc = "split" /\ idx < Len(lines)
    /\ LET r == split_blocks_line(blocks, current, lines[idx + 1])
       IN  blocks' = r.blocks /\ current' = r.current
    /\ idx' = idx + 1
    /\ UNCHANGED <<lines, pc, bi, external, market_income, external_step1,
                   external_step2, best, total_external, total_market_income,
                   cost_from_market, direct_external, total_cost, current_balance,
                   fmtVars, exVars>>

\* split_blocks: the end of the loop and the return
SplitReturn ==
    /\ pc = "split" /\ idx = Len(lines)
    /\ blocks' = split_blocks_end(blocks, current)
    /\ pc' = "fold"
    /\ UNCHANGED <<lines, idx, current, bi, external, market_income, external_step1,
                   external_step2, best, total_external, total_market_income,
                   cost_from_market, direct_external, total_cost, current_balance,
                   fmtVars, exVars>>

\* main takes the next block; calc_external_for_block starts and computes the
\* market income
CalcMarket ==
    /\ pc = "fold" /\ bi < Len(blocks)
    /\ bi' = bi + 1
    /\ external' = DecZero
    /\ market_income' = IF is_market_block(blocks[bi + 1])
                        THEN market_income_of(blocks[bi + 1])
                        ELSE DecZero
    /\ external_step1' = DecZero /\ external_step2' = DecZero /\ best' = None
    /\ pc' = "external"
    /\ UNCHANGED <<lines, idx, blocks, current, total_external, total_market_income,
                   cost_from_market, direct_external, total_cost, current_balance,
                   fmtVars, exVars>>

\* CalcStep1 with step 2 run whatever step 1 found
CalcStep1_AlwaysStep2 ==
    /\ pc = "external"
    /\ IF has_external_method(blocks[bi])
       THEN /\ external_step1' = step1_sum(blocks[bi])
            /\ external' = DecAdd(external, external_step1')
            /\ pc' = "step2"
       ELSE /\ pc' = "return"
            /\ UNCHANGED <<external, external_step1>>
    /\ UNCHANGED <<lines, idx, blocks, current, bi, market_income, external_step2, best,
                   total_external, total_market_income, cost_from_market,
                   direct_external, total_cost, current_balance, fmtVars, exVars>>

\* calc_external_for_block: the test for a payment method, and step 1
CalcStep1 ==
    /\ pc = "external"
    /\ IF has_external_method(blocks[bi])
       THEN /\ external_step1' = step1_sum(blocks[bi])
            /\ external' = DecAdd(external, external_step1')
            /\ pc' = IF external_step1'.c = 0 THEN "step2" ELSE "return"
       ELSE /\ pc' = "return"
            /\ UNCHANGED <<external, external_step1>>
    /\ UNCHANGED <<lines, idx, blocks, current, bi, market_income, external_step2, best,
                   total_external, total_market_income, cost_from_market,
                   direct_external, total_cost, current_balance, fmtVars, exVars>>

\* calc_external_for_block: step 2
CalcStep2 ==
    /\ pc = "step2"
    /\ external_step2' = step2_sum(blocks[bi])
    /\ external' = DecAdd(external, external_step2')
    /\ pc' = IF external_step2'.c = 0 THEN "step3" ELSE "return"
    /\ UNCHANGED <<lines, idx, blocks, current, bi, market_income, external_step1, best,
                   total_external, total_market_income, cost_from_market,
                   direct_external, total_cost, current_balance, fmtVars, exVars>>

\* calc_external_for_block: step 3
CalcStep3 ==
    /\ pc = "step3"
    /\ best' = step3_best(blocks[bi])
    /\ external' = IF best' # None THEN DecAdd(external, best'[1]) ELSE external
    /\ pc' = "return"
    /\ UNCHANGED <<lines, idx, blocks, current, bi, market_income, external_step1,
                   external_step2, total_external, total_market_income,
                   cost_from_market, direct_external, total_cost, current_balance,
                   fmtVars, exVars>>

\* calc_external_for_block returns and main adds the pair to its totals
Accumulate ==
    /\ pc = "return"
    /\ total_external' = DecAdd(total_external, external)
    /\ total_market_income' = DecAdd(total_market_income, market_income)
    /\ pc' = "fold"
    /\ UNCHANGED <<lines, idx, blocks, current, bi, external, market_income,
                   external_step1, external_step2, best, cost_from_market,
                   direct_external, total_cost, current_balance, fmtVars, exVars>>

\* Decimal("0.9")
Discount == [c |-> 9, e |-> 1]

\* main_totals with the discount factor left out
main_totals_NoDiscount(te, tmi) ==
    LET cfm == Quantize2(tmi)
        de == Quantize2(te)
    IN  [cost_from_market |-> cfm, direct_external |-> de,
         total_cost |-> Quantize2(DecAdd(de, cfm))]

\* main_totals(te, tmi): the three figures main derives from the totals
main_totals(te, tmi) ==
    LET cfm == Quantize2(DecMul(tmi, Discount))
        de == Quantize2(te)
    IN  [cost_from_market |-> cfm, direct_external |-> de,
         total_cost |-> Quantize2(DecAdd(de, cfm))]

\* main, after the last block: the discounted cost, the rounding, the total
Totals ==
    /\ pc = "fold" /\ bi = Len(blocks)
    /\ LET t == main_totals(total_external, total_market_income)
       IN  /\ cost_from_market' = t.cost_from_market
           /\ direct_external' = t.direct_external
           /\ total_cost' = t.total_cost
    /\ pc' = "balance"
    /\ UNCHANGED <<lines, idx, blocks, current, bi, external, market_income,
                   external_step1, external_step2, best, total_external,
                   total_market_income, current_balance, fmtVars, exVars>>

\* main: detect_current_wallet_balance(lines), and the report
DetectBalance ==
    /\ pc = "balance"
    /\ current_balance' = detect_current_wallet_balance(lines)
    /\ pc' = "done"
    /\ UNCHANGED <<lines, idx, blocks, current, bi, external, market_income,
                   external_step1, external_step2, best, total_external,
                   total_market_income, cost_from_market, direct_external, total_cost,
                   fmtVars, exVars>>

Next ==
    \/ SplitLine \/ SplitReturn
    \/ CalcMarket \/ CalcStep1 \/ CalcStep2 \/ CalcStep3 \/ Accumulate
    \/ Totals \/ DetectBalance

Spec == Init /\ [][Next]_vars

\* every Decimal a run computes fits the context's precision
PrecisionRespected ==
    \A d \in {external, market_income, external_step1, external_step2,
               total_external, total_market_income, cost_from_market,
               direct_external, total_cost, DecMul(total_market_income, Discount)} :
        NumDigits(d.c) <= prec

----------------------------------------------------------------------------
(* Formatter: format_cost.py *)

\* "市场交易", "购买", "游戏内购买", "资金", "钱包", "支付宝"
Purchase == <<"zh:gou", "zh:mai">>
FormatKeywords ==
    { <<"zh:shi", "zh:chang", "zh:jiao", "zh:yi">>,
      Purchase,
      <<"zh:you", "zh:xi", "zh:nei", "zh:gou", "zh:mai">>,
      FundsMarker,
      Wallet,
      Alipay }

\* s.split(sep), sep one character
RECURSIVE SplitOn(_, _)
SplitOn(s, sep) ==
    LET i == RunEnd(s, 1, {ch \in {s[k] : k \in 1..Len(s)} : ch # sep})
    IN  IF i > Len(s) THEN <<s>>
        ELSE <<SubSeq(s, 1, i - 1)>> \o SplitOn(SubSeq(s, i + 1, Len(s)), sep)

\* sep.join(parts)
RECURSIVE JoinWith(_, _)
JoinWith(parts, sep) ==
    IF parts = <<>> THEN <<>>
    ELSE IF Len(parts) = 1 THEN parts[1]
    ELSE parts[1] \o sep \o JoinWith(Tail(parts), sep)

\* format_cost.py's is_date_line
fmt_is_date_line(s) == DATE_PATTERN(Strip(s))

\* prettify_line with the keyword test by containment instead of equality
prettify_line_KeywordIn(t) ==
    LET stripped == Strip(t)
        parts == SplitOn(t, "\t")
        kept == SelectSeq([k \in 1..Len(parts) |-> Strip(parts[k])], LAMBDA q : q # <<>>)
    IN  IF stripped = <<>> THEN <<>>
        ELSE IF Contains(t, Tab) THEN JoinWith(kept, <<" ", "|", " ">>)
        ELSE IF ContainsAny(stripped, FormatKeywords) THEN <<"-", " ">> \o stripped
        ELSE RStrip(t)

prettify_line(t) ==
    LET stripped == Strip(t)
        parts == SplitOn(t, "\t")
        kept == SelectSeq([k \in 1..Len(parts) |-> Strip(parts[k])], LAMBDA q : q # <<>>)
    IN  IF stripped = <<>> THEN <<>>
        ELSE IF Contains(t, Tab) THEN JoinWith(kept, <<" ", "|", " ">>)
        ELSE IF stripped \in FormatKeywords THEN <<"-", " ">> \o stripped
        ELSE RStrip(t)

\* the three lines of a separator: "", "---", ""
Separator == << <<>>, <<"-", "-", "-">>, <<>> >>

\* format_line with the flag set by any line with content, not only by a date line
format_line_AnyContent(out, fcw, raw) ==
    LET stripped == Strip(raw)
    IN  IF fmt_is_date_line(stripped)
        THEN [out_lines |-> (IF fcw THEN out \o Separator ELSE out) \o <<prettify_line(raw)>>,
              first_content_written |-> TRUE]
        ELSE [out_lines |-> Append(out, IF stripped = <<>> THEN <<>> ELSE prettify_line(raw)),
              first_content_written |-> fcw \/ stripped # <<>>]

\* the body of format_cost_file's loop, for one line: the new out_lines and
\* first_content_written
format_line(out, fcw, raw) ==
    LET stripped == Strip(raw)
    IN  IF fmt_is_date_line(stripped)
        THEN [out_lines |-> (IF fcw THEN out \o Separator ELSE out) \o <<prettify_line(raw)>>,
              first_content_written |-> TRUE]
        ELSE [out_lines |-> Append(out, IF stripped = <<>> THEN <<>> ELSE prettify_line(raw)),
              first_content_written |-> fcw]

\* what write_text is given: "\n".join(out_lines) + "\n"
joined_text(out) == JoinWith(out, <<"\n">>) \o <<"\n">>

\* read_text(...).splitlines(), on a text whose only line break is "\n"
splitlines(t) ==
    LET parts == SplitOn(t, "\n")
    IN  IF parts[Len(parts)] = <<>> THEN SubSeq(parts, 1, Len(parts) - 1) ELSE parts

FormatPool ==
    { <<"x">>,                                               \* a title
      <<" ", "x", " ">>,                                     \* text with blanks around it
      <<>>,                                                  \* an empty line
      <<" ">>,                                               \* a line of whitespace
      <<"-", "-", "-">>,                                     \* a rule of the input's own
      Date,                                                  \* 2025年1月1日
      <<"2", "0", "2", "5", " ", "zh:nian", " ", "1", "2", " ", "zh:yue",
        " ", "1", " ", "zh:ri">> \o Tab \o MarketMarker,     \* 2025 年 12 月 1 日<TAB>Steam 社区市场
      <<"2", "0", "2", "5">> \o Tab \o <<"zh:nian", "1", "zh:yue", "1", "zh:ri">>,
                                                             \* 2025<TAB>年1月1日
      Sp \o Purchase,                                        \* a keyword after a blank
      Purchase \o Tab,                                       \* a keyword before a tab
      FundsMarker \o Tab \o Tab \o <<"+", yen, "5">> }       \* 资金<TAB><TAB>+¥5

FormatDocs == UNION {[1..n -> FormatPool] : n \in 0..MaxDocLen}

InitFormat ==
    /\ lines \in FormatDocs
    /\ pc = "format"
    /\ pass = 1
    /\ idx = 0 /\ out_lines = <<>> /\ first_content_written = FALSE
    /\ output = <<>> /\ first_output = <<>>
    /\ CalcUnused /\ ExUnused

\* format_cost_file: one iteration of the loop
FormatLine ==
    /\ pc = "format" /\ idx < Len(lines)
    /\ LET r == format_line(out_lines, first_content_written, lines[idx + 1])
       IN  /\ out_lines' = r.out_lines
           /\ first_content_written' = r.first_content_written
    /\ idx' = idx + 1
    /\ UNCHANGED <<lines, pc, output, pass, first_output, calcVars, exVars>>

\* format_cost_file: the output file is written
FormatWrite ==
    /\ pc = "format" /\ idx = Len(lines)
    /\ output' = joined_text(out_lines)
    /\ first_output' = IF pass = 1 THEN output' ELSE first_output
    /\ pc' = "written"
    /\ UNCHANGED <<lines, idx, out_lines, first_content_written, pass, calcVars, exVars>>

\* format_cost_file is run again, on the file the first run wrote
FormatAgain ==
    /\ pc = "written" /\ pass = 1
    /\ lines' = splitlines(output)
    /\ pass' = 2
    /\ idx' = 0 /\ out_lines' = <<>> /\ first_content_written' = FALSE
    /\ pc' = "format"
    /\ UNCHANGED <<output, first_output, calcVars, exVars>>

NextFormat == FormatLine \/ FormatWrite \/ FormatAgain

SpecFormat == InitFormat /\ [][NextFormat]_vars

----------------------------------------------------------------------------
(* extract_amounts applied to every short line over a small alphabet *)

MaxTextLen == 5
ExtractAlphabet == {"+", "-", " ", yen, fwyen, "1", "5", ",", "."}
Texts == UNION {[1..n -> ExtractAlphabet] : n \in 0..MaxTextLen}

InitExtract ==
    /\ text \in Texts
    /\ result = <<>>
    /\ pc = "extract"
    /\ lines = <<>>
    /\ CalcUnused /\ FmtUnused

ExtractAmounts ==
    /\ pc = "extract"
    /\ result' = extract_amounts(text)
    /\ pc' = "extracted"
    /\ UNCHANGED <<text, lines, idx, calcVars, fmtVars>>

NextExtract == ExtractAmounts

SpecExtract == InitExtract /\ [][NextExtract]_vars

----------------------------------------------------------------------------
(* The currency-token grammar of the claims; C5 *)

\* the end (exclusive) of the numeric literal that starts at j: digits, comma
\* groups of digits, and an optional point followed by digits; j if none starts there
RECURSIVE GroupsEnd(_, _)
GroupsEnd(s, d) ==
    IF d + 1 <= Len(s) /\ s[d] = "," /\ s[d + 1] \in Digits
    THEN GroupsEnd(s, RunEnd(s, d + 1, Digits))
    ELSE d
LiteralEnd(s, j) ==
    LET d == GroupsEnd(s, RunEnd(s, j, Digits))
    IN  IF d = j THEN j
        ELSE IF d + 1 <= Len(s) /\ s[d] = "." /\ s[d + 1] \in Digits
             THEN RunEnd(s, d + 1, Digits)
             ELSE d

\* the syntactically valid currency tokens of s from position i on, left to
\* right: for each, whether its sign is "+", and its magnitude (sign discarded,
\* commas removed)
RECURSIVE ValidTokenRecs(_, _)
ValidTokenRecs(s, i) ==
    IF i > Len(s) THEN <<>>
    ELSE LET j0 == IF s[i] \in {"+", "-"} THEN i + 1 ELSE i
             j1 == RunEnd(s, j0, Whitespace)
             j2 == RunEnd(s, j1 + 1, Whitespace)
             j3 == LiteralEnd(s, j2)
         IN  IF j1 <= Len(s) /\ s[j1] \in Glyphs /\ j3 > j2
             THEN <<[plus |-> s[i] = "+",
                     value |-> ParseDecimal(SelectSeq(SubSeq(s, j2, j3 - 1),
                                                      LAMBDA ch : ch # ",")).value]>>
                      \o ValidTokenRecs(s, j3)
             ELSE ValidTokenRecs(s, i + 1)

ValidTokens(s, i) ==
    LET recs == ValidTokenRecs(s, i) IN [k \in 1..Len(recs) |-> recs[k].value]

SameAmounts(xs, ys) ==
    /\ Len(xs) = Len(ys)
    /\ \A k \in 1..Len(xs) : DecEq(xs[k], ys[k])

\* C5: for every line that contains k >= 1 syntactically valid currency tokens,
\* whatever text surrounds or follows each token, extract_amounts returns
\* exactly k amounts, in token order, each the token's magnitude.
C5_ExtractsEveryValidToken ==
    (pc = "extracted" /\ ValidTokens(text, 1) # <<>>)
        => SameAmounts(result, ValidTokens(text, 1))

----------------------------------------------------------------------------
(* C1 *)

\* C1: concatenating, in order, the lines of the blocks split_blocks returns
\* yields exactly the document (during the loop: the blocks and the open buffer
\* hold exactly the lines read so far), and the empty document yields no block.
C1_LosslessPartition ==
    /\ pc = "split" => Flatten(blocks) \o current = SubSeq(lines, 1, idx)
    /\ pc # "split" => /\ Flatten(blocks) = lines
                       /\ (lines = <<>> => blocks = <<>>)

\* a document that starts with content that is no date marker, split into
\* several blocks
C1_Witness ==
    /\ pc = "fold" /\ Len(blocks) >= 2
    /\ ~is_date_line(lines[1]) /\ Len(blocks[1]) >= 2

----------------------------------------------------------------------------
(* C2 *)

\* the lines of block b that carry a sign directly followed by a currency
\* glyph and from which an amount is extracted
SignedLines(b) ==
    {k \in 1..Len(b) : ContainsAny(b[k], SignedGlyph) /\ extract_amounts(b[k]) # <<>>}

\* v is the maximum, over the signed lines of b, of the line's first extracted
\* amount, or 0 when there is no such line
IsStep3Value(b, v) ==
    IF SignedLines(b) = {} THEN v.c = 0
    ELSE /\ \E k \in SignedLines(b) : DecEq(v, extract_amounts(b[k])[1])
         /\ \A k \in SignedLines(b) : ~DecGt(extract_amounts(b[k])[1], v)

----------------------------------------------------------------------------
(* C3 *)

\* s has a "+" followed by optional whitespace and a currency glyph
HasPlusToken(s) ==
    \E i \in 1..Len(s) :
        /\ s[i] = "+"
        /\ RunEnd(s, i + 1, Whitespace) <= Len(s)
        /\ s[RunEnd(s, i + 1, Whitespace)] \in Glyphs

\* C3: is_market_block(block) is true if and only if some line has the
\* marketplace marker, some line has the funds marker, and some line has a
\* positive-signed currency token ("+", optional whitespace, either glyph).
C3_MarketBlockIff ==
    pc = "external" =>
        (is_market_block(blocks[bi])
            <=> /\ \E k \in 1..Len(blocks[bi]) : Contains(blocks[bi][k], MarketMarker)
                /\ \E k \in 1..Len(blocks[bi]) : Contains(blocks[bi][k], FundsMarker)
                /\ \E k \in 1..Len(blocks[bi]) : HasPlusToken(blocks[bi][k]))

----------------------------------------------------------------------------
(* C4 *)

\* the sum of the magnitudes of the valid currency tokens of b's lines that
\* have an explicit leading "+"
RECURSIVE PlusTokenSum(_)
PlusTokenSum(b) ==
    IF b = <<>> THEN DecZero
    ELSE LET recs == SelectSeq(ValidTokenRecs(Head(b), 1), LAMBDA r : r.plus)
         IN  DecAdd(DecSum([k \in 1..Len(recs) |-> recs[k].value]), PlusTokenSum(Tail(b)))

\* C4: the marketplace income of a block that is not a marketplace block is 0,
\* and that of a marketplace block is the sum of the magnitudes of exactly its
\* "+"-signed currency tokens, whether or not the block has a payment keyword.
C4_MarketIncome ==
    pc = "return" =>
        DecEq(market_income,
              IF is_market_block(blocks[bi]) THEN PlusTokenSum(blocks[bi]) ELSE DecZero)

----------------------------------------------------------------------------
(* C6 *)

Abs(n) == IF n < 0 THEN -n ELSE n

\* r is x rounded to 2 decimals: r has 2 decimals and is nearest to x, the
\* even one of the two when x is half way
IsRound2(x, r) ==
    LET e == Max(x.e, 3)
        diff == Abs(Scaled(x, e) - Scaled(r, e))
        half == 5 * Pow10(e - 3)
    IN  /\ r.e = 2
        /\ diff < half \/ (diff = half /\ r.c % 2 = 0)

\* C6: the reported total is round2(round2(externalSpend) +
\* round2(marketplaceIncome * 0.9)), each part rounded to 2 decimals before the
\* addition; totals of 100.00 and 50.00 give 145.00.
C6_TotalCost ==
    /\ pc \in {"balance", "done"} =>
        /\ IsRound2(total_external, direct_external)
        /\ IsRound2([c |-> 9 * total_market_income.c, e |-> total_market_income.e + 1],
                    cost_from_market)
        /\ IsRound2(DecAdd(direct_external, cost_from_market), total_cost)
    /\ DecEq(main_totals([c |-> 10000, e |-> 2], [c |-> 5000, e |-> 2]).total_cost,
             [c |-> 14500, e |-> 2])

\* both totals are non-zero and both roundings change the value
C6_Witness ==
    /\ pc = "done"
    /\ ~DecEq(total_external, direct_external)
    /\ ~DecEq(DecMul(total_market_income, Discount), cost_from_market)

----------------------------------------------------------------------------
(* C7 *)

\* the lines with at least 3 extractable amounts
BalanceLines == {k \in 1..Len(lines) : Len(extract_amounts(lines[k])) >= 3}

\* C7: the balance is the third amount of the first line, from the top, that
\* has at least 3 extractable amounts, and None exactly when there is no such
\* line; a later such line never overrides an earlier one.
C7_FirstBalanceLine ==
    pc = "done" =>
        /\ current_balance = None <=> BalanceLines = {}
        /\ \A k \in BalanceLines :
               (\A j \in BalanceLines : k <= j)
                   => current_balance = Some(extract_amounts(lines[k])[3])

\* two balance lines with different third amounts, the first not on line 1
C7_Witness ==
    /\ pc = "done"
    /\ 1 \notin BalanceLines
    /\ \E j, k \in BalanceLines :
           /\ j < k
           /\ ~DecEq(extract_amounts(lines[j])[3], extract_amounts(lines[k])[3])

----------------------------------------------------------------------------
(* C10 *)

\* a line with a payment keyword and a currency glyph, either one
KeywordGlyphLine(line) ==
    ContainsAny(line, EXTERNAL_METHOD_KEYWORDS) /\ \E i \in 1..Len(line) : line[i] \in Glyphs

\* C10: step 1 sums all extracted amounts of every line of an external-payment
\* block that has a payment keyword and a currency glyph, half-width or
\* full-width.
C10_Step1EitherGlyph ==
    (pc = "return" /\ has_external_method(blocks[bi]))
        => DecEq(external_step1, step_sum(SelectSeq(blocks[bi], KeywordGlyphLine)))

----------------------------------------------------------------------------
(* C8 *)

\* whether a date-marker line comes before line k of ls
DateBefore(ls, k) == \E j \in 1..(k - 1) : fmt_is_date_line(ls[j])

\* the first n lines of ls, each in the form given by Form, with a separator
\* right before every date-marker line that is not the first one
WithSeparators(ls, n, Form(_)) ==
    Flatten([k \in 1..n |->
        (IF fmt_is_date_line(ls[k]) /\ DateBefore(ls, k) THEN Separator ELSE <<>>)
            \o <<Form(ls[k])>>])

\* C8: the output is the formatted lines of the input, in order, with the three
\* lines "", "---", "" right before every date-marker line except the first
\* date-marker line, and nowhere else.
C8_SeparatorBeforeLaterDates ==
    pass = 1 => out_lines = WithSeparators(lines, idx, prettify_line)

\* content, then a first date marker, then a second one
C8_Witness ==
    /\ pass = 1 /\ pc = "written" /\ Len(lines) = 3
    /\ Strip(lines[1]) # <<>> /\ ~fmt_is_date_line(lines[1])
    /\ fmt_is_date_line(lines[2]) /\ fmt_is_date_line(lines[3])
    /\ Len(out_lines) = 6

----------------------------------------------------------------------------
(* C9 *)

\* C9 as stated: the second run, on the first run's output, leaves the content
\* line for line unchanged and inserts no further separator.
C9_Idempotent ==
    (pass = 2 /\ pc = "written") => (out_lines = lines /\ output = first_output)

\* what the second run does to a line that is no date marker
Bulleted(line) == IF line \in FormatKeywords THEN <<"-", " ">> \o line ELSE line

\* C9, amended: the second run keeps every line of the first run's output, in
\* order, and changes only this: a new separator right before every
\* date-marker line except the first, and "- " put before a line that is
\* exactly a category keyword.
C9_SecondRun ==
    pass = 2 => out_lines = WithSeparators(lines, idx, Bulleted)

\* a first output with two date markers and a bare keyword line, run again
C9_Witness ==
    /\ pass = 2 /\ pc = "written"
    /\ Cardinality({k \in 1..Len(lines) : fmt_is_date_line(lines[k])}) >= 2
    /\ \E k \in 1..Len(lines) : lines[k] \in FormatKeywords

====
